---------------------------- MODULE Spec2Model ----------------------------
(***************************************************************************)
(* A model of the EBML decoder of src/ebml/decode.go: the variable-length  *)
(* integer codec (remaining, readVint, readSize), the size-bounded element  *)
(* cursor (Element over a chain of io.LimitedReader), the reflective        *)
(* record decoder (readStruct, readField, readSlice, lookup, getTag) and   *)
(* the default pass (setDefaults, setFieldDefaults).                        *)
(*                                                                         *)
(* Values of type uint64 are 8-tuples of bytes, most significant first, so  *)
(* that an 8-byte vint keeps its full width.  Go strings and struct tags   *)
(* are sequences of byte values (ASCII codes).                              *)
(***************************************************************************)
EXTENDS Integers, Sequences, FiniteSets, TLC

VARIABLES
    src,      \* the underlying io.Reader: [data, endErr]
    pos,      \* number of bytes of src.data already consumed
    lims,     \* N of every io.LimitedReader of the cursor chain, root first
    typ,      \* name of the record type handed to Unmarshal
    dest,     \* the destination record being populated
    stack,    \* the active readStruct calls, outermost first
    status,   \* "running", "returned", "panic", "idle"
    result,   \* the error value Unmarshal returned
    handled,  \* the child the innermost finished loop iteration handled
    nx,       \* what the last Next call of a readStruct loop did
    stopAt,   \* where a stop-tagged field was matched
    defPass,  \* the record before and after the last default pass
    caller,   \* what the caller did with a ReachedPayloadError
    vout      \* what a direct call of readVint or readSize returned

vars == <<src, pos, lims, typ, dest, stack, status, result, handled, nx,
          stopAt, defPass, caller, vout>>

-----------------------------------------------------------------------------
(* Bounds of the model.                                                    *)

\* longest input stream handed to Unmarshal
MaxLen == 5
\* most bytes following the first byte of the vint handed to the codec
MaxFollow == 7

Min(a, b) == IF a < b THEN a ELSE b

-----------------------------------------------------------------------------
(* uint64 arithmetic on 8-tuples of bytes.                                 *)

U64Zero == <<0, 0, 0, 0, 0, 0, 0, 0>>

\* uint64(b) for a byte b
U64OfByte(b) == <<0, 0, 0, 0, 0, 0, 0, b>>

\* val <<= 8 : the top byte falls off
Shl8(val) == <<val[2], val[3], val[4], val[5], val[6], val[7], val[8], 0>>

\* a + b modulo 2^64: the bytes are added from the lowest, with carries
U64Add(a, b) ==
    LET s8 == a[8] + b[8]
        s7 == a[7] + b[7] + s8 \div 256
        s6 == a[6] + b[6] + s7 \div 256
        s5 == a[5] + b[5] + s6 \div 256
        s4 == a[4] + b[4] + s5 \div 256
        s3 == a[3] + b[3] + s4 \div 256
        s2 == a[2] + b[2] + s3 \div 256
        s1 == a[1] + b[1] + s2 \div 256
    IN  <<s1 % 256, s2 % 256, s3 % 256, s4 % 256,
          s5 % 256, s6 % 256, s7 % 256, s8 % 256>>

\* 2^n for small n
RECURSIVE Pow2(_)
Pow2(n) == IF n = 0 THEN 1 ELSE 2 * Pow2(n - 1)

\* val & ^(1 << p), 0 <= p < 64: byte 8 - p \div 8 holds bit p
ClearBit(val, p) ==
    IF (val[8 - (p \div 8)] \div Pow2(p % 8)) % 2 = 1
    THEN [val EXCEPT ![8 - (p \div 8)] = @ - Pow2(p % 8)]
    ELSE val

\* int64(val), for the values that fit the model checker's integers
Int64(val) ==
    val[8] + 256 * (val[7] + 256 * (val[6] + 256 * (val[5] + 256 *
        (val[4] + 256 * (val[3] + 256 * (val[2] + 256 * val[1]))))))

\* the uint64 holding a small natural number
RECURSIVE U64From(_, _, _)
U64From(n, i, acc) ==
    IF i = 0 THEN acc
    ELSE U64From(n \div 256, i - 1, [acc EXCEPT ![i] = n % 256])

U64OfNat(n) == U64From(n, 8, U64Zero)

-----------------------------------------------------------------------------
(* The byte source and the chain of io.LimitedReader over it.  A reader    *)
(* state rs is [lims, pos]; cursor c reads through lims[c], lims[c-1], ...,  *)
(* lims[1] and then the source.                                            *)

\* math.MaxInt64, the root's bound, stands for "no bound": any value above
\* every stream and every declared size of the model behaves the same
RootLimit == 1000000

\* RootElement: the root cursor over the whole source, Id 0
RootElement == [lims |-> <<RootLimit>>, pos |-> 0]

RECURSIVE MinLim(_, _)
MinLim(l, c) ==
    IF c = 0 THEN RootLimit
    ELSE Min(IF l[c] < 0 THEN 0 ELSE l[c], MinLim(l, c - 1))

\* the bytes cursor c can still deliver
Avail(rs, c) == Min(MinLim(rs.lims, c), Len(src.data) - rs.pos)

\* make([]uint8, n): n zero bytes
Zeros(n) == [i \in 1..n |-> 0]

\* the error of a Read of cursor c that delivers no byte, n bytes after rs:
\* a LimitedReader with N <= 0 answers io.EOF without asking the reader
\* below it; the source answers src.endErr once its data is used up
ReadErr(rs, c, n) ==
    IF \E i \in 1..c : rs.lims[i] - n <= 0 THEN "EOF" ELSE src.endErr

\* the error of io.ReadFull when it got n bytes, fewer than asked for, and
\* then e: io.EOF after some bytes is io.ErrUnexpectedEOF
ReadFullErr(n, e) == IF n > 0 /\ e = "EOF" THEN "ErrUnexpectedEOF" ELSE e

\* io.ReadFull(cursor c, buffer of len bytes) that gets n bytes: the bytes
\* read, the error and the reader state afterwards
ReadFullGot(rs, c, len, n) ==
    [n    |-> n,
     data |-> SubSeq(src.data, rs.pos + 1, rs.pos + n),
     err  |-> IF n >= len THEN "nil"
              ELSE ReadFullErr(n, ReadErr(rs, c, n)),
     rs   |-> [lims |-> [i \in 1..Len(rs.lims) |->
                           IF i <= c THEN rs.lims[i] - n ELSE rs.lims[i]],
               pos  |-> rs.pos + n]]

\* io.ReadFull(cursor c, buffer of len bytes)
ReadFull(rs, c, len) == ReadFullGot(rs, c, len, Min(len, Avail(rs, c)))

-----------------------------------------------------------------------------
(* The variable-length integer codec.                                      *)

\* int8(x): the low 8 bits of x as a signed byte
Int8(x) == ((x + 128) % 256) - 128

RECURSIVE remainingLoop(_, _)
remainingLoop(x, rem) ==
    IF x > 0 THEN remainingLoop(Int8(x + x), rem + 1) ELSE rem

\* remaining(x int8): how often x doubles before it stops being positive
remaining(x) == remainingLoop(x, 0)

RECURSIVE readVintLoop(_, _, _, _, _, _)
RECURSIVE readVintRead(_, _, _, _, _, _)

\* the loop of readVint after r, the result of its io.ReadFull(r, v): v is
\* the one-byte buffer, which keeps its content when the read fails
readVintRead(c, val, v, i, rem, r) ==
    IF r.err = "nil"
    THEN readVintLoop(r.rs, c, U64Add(Shl8(val), U64OfByte(r.data[1])),
                      r.data[1], i + 1, rem)
    ELSE [val |-> U64Add(Shl8(val), U64OfByte(v)), err |-> r.err,
          rem |-> rem, rs |-> r.rs]

\* the loop of readVint: for i := 0; err == nil && i < rem; i++
readVintLoop(rs, c, val, v, i, rem) ==
    IF i < rem
    THEN readVintRead(c, val, v, i, rem, ReadFull(rs, c, 1))
    ELSE [val |-> val, err |-> "nil", rem |-> rem, rs |-> rs]

\* readVint after r, the result of reading its first byte
readVintFirst(c, r) ==
    IF r.err = "nil"
    THEN readVintLoop(r.rs, c, U64OfByte(r.data[1]), r.data[1], 0,
                      remaining(Int8(r.data[1])))
    ELSE [val |-> U64Zero, err |-> r.err, rem |-> 0, rs |-> r.rs]

\* readVint(r): (val, err, rem) and the reader state afterwards
readVint(rs, c) == readVintFirst(c, ReadFull(rs, c, 1))

\* readSize clearing the top bit of the first of whole bytes, bit 8*rem + 7:
\* a marker taken to sit in the same place of every first byte
readSizeOfTopBit(r) ==
    [sz  |-> ClearBit(r.val, 7 + r.rem * 8),
     err |-> r.err,
     rs  |-> r.rs]

\* readSize of r, the result of its readVint:
\* val & ^(128 << uint(rem*8-rem))
readSizeOf(r) ==
    [sz  |-> ClearBit(r.val, 7 + (r.rem * 8 - r.rem)),
     err |-> r.err,
     rs  |-> r.rs]

\* readSize(r): sz holds the bits of the int64 returned
readSize(rs, c) == readSizeOf(readVint(rs, c))

-----------------------------------------------------------------------------
(* The bounded element cursor.                                             *)

NilElement(err, rs) ==
    [isNil |-> TRUE, err |-> err, Id |-> U64Zero, N |-> 0, rs |-> rs]

\* Next after sz, the result of its readSize: the child has Id id and a
\* LimitedReader of sz bytes over e.R
NextOfSize(id, sz) ==
    IF sz.err # "nil" THEN NilElement(sz.err, sz.rs)
    ELSE [isNil |-> FALSE, err |-> "nil", Id |-> id.val,
          N |-> Int64(sz.sz), rs |-> sz.rs]

\* Next after id, the result of its readVint
NextOfId(c, id) ==
    IF id.err # "nil" THEN NilElement(id.err, id.rs)
    ELSE NextOfSize(id, readSize(id.rs, c))

\* e.Next() on cursor c: on success the child's Id and the N of its
\* LimitedReader; on failure the child is nil
Next(rs, c) == NextOfId(c, readVint(rs, c))

\* the reader state once Next's child is cursor c + 1
WithChild(rs, c, n) ==
    [rs EXCEPT !.lims = Append(SubSeq(rs.lims, 1, c), n)]

\* e.Size(): N of the cursor's LimitedReader
Size(rs, c) == rs.lims[c]

\* ReadData's buffer of sz bytes after r, the result of its io.ReadFull
ReadDataOf(sz, r) ==
    [d |-> r.data \o Zeros(sz - r.n), err |-> r.err, rs |-> r.rs]

\* e.ReadData(): a buffer of Size() bytes, as far as io.ReadFull filled it
ReadData(rs, c) == ReadDataOf(Size(rs, c), ReadFull(rs, c, Size(rs, c)))

\* the loop of readUint64 over d, st being its variables i and val:
\* for i = 0; i < sz; i++ { val <<= 8; val += uint64(d[i]) }
RECURSIVE BigEndian(_, _)
BigEndian(d, st) ==
    IF st.i >= Len(d) THEN st.val
    ELSE BigEndian(d, [i   |-> st.i + 1,
                       val |-> U64Add(Shl8(st.val), U64OfByte(d[st.i + 1]))])

readUint64Of(r) ==
    [val |-> BigEndian(r.d, [i |-> 0, val |-> U64Zero]), err |-> r.err,
     rs  |-> r.rs]

\* e.readUint64(): the payload as a big-endian number
readUint64(rs, c) == readUint64Of(ReadData(rs, c))

readStringOf(r) == [val |-> r.d, err |-> r.err, rs |-> r.rs]

\* e.readString(): string(payload)
readString(rs, c) == readStringOf(ReadData(rs, c))

skipOf(r) == [err |-> r.err, rs |-> r.rs]

\* e.skip(): the payload read and dropped
skip(rs, c) == skipOf(ReadData(rs, c))

-----------------------------------------------------------------------------
(* The destination record types handed to Unmarshal, as reflect sees them. *)
(* A tag value is the string of the struct tag, as ASCII codes; <<>> is an  *)
(* absent tag.  The names of fields and types are plain strings.           *)
(*                                                                         *)
(*   type Scalars struct {                                                 *)
(*       A uint `ebml:"81" ebmldef:"7"`                                    *)
(*       B uint `ebml:"82" ebmldef:"5" ebmldeflink:"A"`                    *)
(*       C uint `ebmldeflink:"D"`                                          *)
(*       D uint `ebml:"83"`                                                *)
(*   }                                                                     *)
(*   type Doc struct {                                                     *)
(*       H []Scalars `ebml:"81"`                                           *)
(*       L Scalars   `ebml:"82"`                                           *)
(*       P []byte    `ebml:"83" ebmlstop:"1"`                              *)
(*   }                                                                     *)
(*   type Outer struct {                                                   *)
(*       Z [0]Scalars `ebml:"81"`                                          *)
(*       D Doc        `ebml:"82"`                                          *)
(*       Y [2]Scalars `ebml:"83"`                                          *)
(*   }                                                                     *)
(*   type Blob struct {                                                    *)
(*       Raw  []byte `ebml:"81"`                                           *)
(*       Name string `ebml:"82" ebmldef:"x"`                               *)
(*   }                                                                     *)

Field(name, kind, elem, len, ebml, ebmlstop, ebmldef, ebmldeflink) ==
    [name |-> name, kind |-> kind, elem |-> elem, len |-> len,
     ebml |-> ebml, ebmlstop |-> ebmlstop, ebmldef |-> ebmldef,
     ebmldeflink |-> ebmldeflink]

StructTypes ==
    [Scalars |-> <<
        Field("A", "Uint", "", 0, <<56, 49>>, <<>>, <<55>>, ""),
        Field("B", "Uint", "", 0, <<56, 50>>, <<>>, <<53>>, "A"),
        Field("C", "Uint", "", 0, <<>>, <<>>, <<>>, "D"),
        Field("D", "Uint", "", 0, <<56, 51>>, <<>>, <<>>, "") >>,
     Doc |-> <<
        Field("H", "Slice", "Scalars", 0, <<56, 49>>, <<>>, <<>>, ""),
        Field("L", "Struct", "Scalars", 0, <<56, 50>>, <<>>, <<>>, ""),
        Field("P", "Slice", "uint8", 0, <<56, 51>>, <<49>>, <<>>, "") >>,
     Outer |-> <<
        Field("Z", "Array", "Scalars", 0, <<56, 49>>, <<>>, <<>>, ""),
        Field("D", "Struct", "Doc", 0, <<56, 50>>, <<>>, <<>>, ""),
        Field("Y", "Array", "Scalars", 2, <<56, 51>>, <<>>, <<>>, "") >>,
     Blob |-> <<
        Field("Raw", "Slice", "uint8", 0, <<56, 49>>, <<>>, <<>>, ""),
        Field("Name", "String", "", 0, <<56, 50>>, <<>>, <<120>>, "") >>]

\* the record types Unmarshal is called with
RootTypes == {"Scalars", "Doc", "Outer", "Blob"}

\* t.NumField() and t.Field(i), i counted from 0 as in Go
NumField(t) == Len(StructTypes[t])
TField(t, i) == StructTypes[t][i + 1]

\* reflect.Zero of a field's type: a struct is the sequence of its fields'
\* values, a slice or an array the sequence of its elements
RECURSIVE ZeroStruct(_)
ZeroField(f) ==
    CASE f.kind = "Uint"   -> U64Zero
      [] f.kind = "String" -> <<>>
      [] f.kind = "Struct" -> ZeroStruct(f.elem)
      [] f.kind = "Slice"  -> <<>>
      [] f.kind = "Array"  -> [i \in 1..f.len |-> ZeroStruct(f.elem)]

ZeroStruct(t) == [i \in 1..NumField(t) |-> ZeroField(TField(t, i - 1))]

\* the value at a path of 1-based indices below v, and v with it replaced
RECURSIVE GetAt(_, _)
GetAt(v, path) ==
    IF path = <<>> THEN v ELSE GetAt(v[Head(path)], Tail(path))

RECURSIVE SetAt(_, _, _)
SetAt(v, path, x) ==
    IF path = <<>> THEN x
    ELSE [v EXCEPT ![Head(path)] = SetAt(v[Head(path)], Tail(path), x)]

-----------------------------------------------------------------------------
(* Struct tags.                                                            *)

\* the value of an ASCII digit in the given base, -1 if it is none
DigitVal(ch, base) ==
    LET d == IF ch >= 48 /\ ch <= 57 THEN ch - 48
             ELSE IF ch >= 97 /\ ch <= 122 THEN ch - 97 + 10
             ELSE IF ch >= 65 /\ ch <= 90 THEN ch - 65 + 10
             ELSE -1
    IN  IF d >= 0 /\ d < base THEN d ELSE -1

RECURSIVE ParseDigits(_, _, _, _)
ParseDigits(s, base, i, acc) ==
    IF i > Len(s) THEN acc
    ELSE IF DigitVal(s[i], base) < 0 THEN 0
    ELSE ParseDigits(s, base, i + 1, acc * base + DigitVal(s[i], base))

\* strconv.ParseUint(s, base, 0) with its error dropped: 0 for an empty
\* string or a string with a character that is no digit (the tags of the
\* model are too short to overflow)
ParseUint(s, base) == IF s = <<>> THEN 0 ELSE ParseDigits(s, base, 1, 0)

\* f.Tag.Get(s)
TagGet(f, s) ==
    CASE s = "ebml"     -> f.ebml
      [] s = "ebmlstop" -> f.ebmlstop
      [] s = "ebmldef"  -> f.ebmldef

\* getTag(f, s): the tag parsed as a hexadecimal number
getTag(f, s) == ParseUint(TagGet(f, s), 16)

\* lookup(reqid, t): the index of the first field whose ebml tag is reqid,
\* less 1000000 if the field is stop-tagged; -1 if there is none
RECURSIVE lookupFrom(_, _, _)
lookupFrom(reqid, t, i) ==
    IF i >= NumField(t) THEN -1
    ELSE IF U64OfNat(getTag(TField(t, i), "ebml")) = reqid
         THEN i - 1000000 * getTag(TField(t, i), "ebmlstop")
         ELSE lookupFrom(reqid, t, i + 1)

lookup(reqid, t) == lookupFrom(reqid, t, 0)

-----------------------------------------------------------------------------
(* The default pass.  rec is the record's value, t its type, i a field      *)
(* index counted from 0.                                                   *)

RECURSIVE FieldByNameFrom(_, _, _)
FieldByNameFrom(t, name, i) ==
    IF TField(t, i).name = name THEN i ELSE FieldByNameFrom(t, name, i + 1)

\* s.FieldByName(name): the index of the field of that name
FieldByName(t, name) == FieldByNameFrom(t, name, 0)

\* the literal default of a field, parsed by the field's kind
LiteralDefault(sf) ==
    CASE sf.kind = "Uint"   -> U64OfNat(ParseUint(sf.ebmldef, 10))
      [] sf.kind = "String" -> sf.ebmldef

\* the ebmldeflink part of setFieldDefaults: v.Set(s.FieldByName(ltag))
setLinkDefault(rec, t, i) ==
    IF TField(t, i).ebmldeflink # ""
    THEN [rec EXCEPT ![i + 1] =
             rec[FieldByName(t, TField(t, i).ebmldeflink) + 1]]
    ELSE rec

\* the ebmldef part of setFieldDefaults
setLiteralDefault(rec, t, i) ==
    IF TField(t, i).ebmldef # <<>>
    THEN [rec EXCEPT ![i + 1] = LiteralDefault(TField(t, i))]
    ELSE rec

\* setFieldDefaults with a link that gives way to the literal: the link is
\* followed only if the field is still zero after the literal
setFieldDefaultsLiteralWins(rec, t, i) ==
    IF rec[i + 1] # ZeroField(TField(t, i)) THEN rec
    ELSE IF setLiteralDefault(rec, t, i)[i + 1] = ZeroField(TField(t, i))
         THEN setLinkDefault(rec, t, i)
         ELSE setLiteralDefault(rec, t, i)

\* setFieldDefaults(v, sf, s) for field i of s: a field that is zero gets
\* its ebmldef literal, if any, and then the value of the field its
\* ebmldeflink names, if any
setFieldDefaults(rec, t, i) ==
    IF rec[i + 1] = ZeroField(TField(t, i))
    THEN setLinkDefault(setLiteralDefault(rec, t, i), t, i)
    ELSE rec

\* the kinds setDefaults hands to setFieldDefaults
IsScalar(f) == f.kind \in {"Uint", "String"}

RECURSIVE setDefaultsFrom(_, _, _)
setDefaultsFrom(rec, t, i) ==
    IF i >= NumField(t) THEN rec
    ELSE setDefaultsFrom(
             IF IsScalar(TField(t, i)) THEN setFieldDefaults(rec, t, i)
             ELSE rec,
             t, i + 1)

\* setDefaults(v): the fields in order
setDefaults(rec, t) == setDefaultsFrom(rec, t, 0)

-----------------------------------------------------------------------------
(* The record decoder as a state machine.  stack holds one frame for each   *)
(* active readStruct call; the cursor e of frame k is lims[k], and the      *)
(* child ne of its current loop iteration is lims[k + 1].                   *)

\* the bytes the input streams are made of: 0x00, 0x81, 0x82, 0x83
InputBytes == {0, 129, 130, 131}

Inputs == UNION {[1..n -> InputBytes] : n \in 0..MaxLen}

NoElem == [cur |-> 0, Id |-> U64Zero]

\* an error value; kind "nil" is no error
Err(kind) == [kind |-> kind, First |-> NoElem, Rest |-> NoElem]

\* ReachedPayloadError{e, ne}: the two cursors in each other's place
ReachedPayloadErrorSwapped(ne, e) ==
    [kind |-> "Reached", First |-> e, Rest |-> ne]

\* ReachedPayloadError{ne, e}
ReachedPayloadError(ne, e) == [kind |-> "Reached", First |-> ne, Rest |-> e]

NoChild == [kind |-> "none", id |-> U64Zero, ty |-> "", declared |-> 0,
            avail |-> 0]

NoHandled == [kind |-> "none", id |-> U64Zero, ty |-> "", declared |-> 0,
              avail |-> 0, err |-> "nil", left |-> 0, pavail |-> 0]

NoNx == [called |-> FALSE, cur |-> 0, err |-> "nil", n |-> 0, lim |-> 0,
         avail |-> 0, idFirst |-> -1, szFirst |-> -1]

NoStop == [depth |-> 0, ty |-> "", hdrEnd |-> 0, size |-> 0, avail |-> 0,
           id |-> U64Zero, err |-> Err("nil")]

NoDefPass == [ran |-> FALSE, ty |-> "", before |-> <<>>, after |-> <<>>]

NoCaller == [readFirst |-> FALSE, restNext |-> FALSE, from |-> 0,
             firstLeft |-> 0, ne |-> [isNil |-> TRUE, err |-> "nil",
                                      Id |-> U64Zero, N |-> 0]]

NoOut == [fn |-> "none", val |-> U64Zero, err |-> "nil", rem |-> 0, n |-> 0]

\* no element: the nil *Element
NoNe == [isNil |-> TRUE, Id |-> U64Zero, N |-> 0, avail |-> 0]

\* a readStruct call that has just begun: the cursor's Id, the path of the
\* record in dest, its type, who called it (via, and slot of alen for the
\* array loop of readField) and the child of the caller it decodes.  pc is
\* "loop" at the head of the loop, "next" once Next has returned ne and err,
\* "exit" after the loop
Frame(id, path, ty, via, slot, alen, child) ==
    [id |-> id, path |-> path, ty |-> ty, via |-> via, slot |-> slot,
     alen |-> alen, child |-> child, ne |-> NoNe, err |-> Err("nil"),
     pc |-> "loop"]

\* a readStruct loop that a ReachedPayloadError does not end
LoopGoesOnPastStop(err) == err.kind \in {"nil", "Reached"}

\* the loop condition of readStruct: for err == nil
LoopGoesOn(err) == err.kind = "nil"

\* the loop condition of readField's array case: i < l && err == nil
ArrayGoesOn(i, l, err) == i < l /\ err.kind = "nil"

Init ==
    /\ src \in [data : Inputs, endErr : {"EOF", "EIO"}]
    /\ typ \in RootTypes
    /\ pos = RootElement.pos
    /\ lims = RootElement.lims
    /\ dest = ZeroStruct(typ)
    /\ stack = <<>>
    /\ status = "idle"
    /\ result = Err("nil")
    /\ handled = NoHandled
    /\ nx = NoNx
    /\ stopAt = NoStop
    /\ defPass = NoDefPass
    /\ caller = NoCaller
    /\ vout = NoOut

\* e.Unmarshal(val) on the root element: readStruct of the record
Unmarshal ==
    /\ status = "idle"
    /\ status' = "running"
    /\ stack' = <<Frame(U64Zero, <<>>, typ, "top", 0, 0, NoChild)>>
    /\ UNCHANGED <<src, pos, lims, typ, dest, result, handled, nx, stopAt,
                   defPass, caller, vout>>

Cur == Len(stack)
Top == stack[Cur]

\* the reader
Rd == [lims |-> lims, pos |-> pos]

\* the reader as a loop iteration finds it: the child of the iteration
\* before is gone
Rs == [lims |-> SubSeq(lims, 1, Cur), pos |-> pos]

\* what a Next call of readStruct did: r is what it returned, idv the
\* identifier vint it read
NxInfo(r, idv) ==
    [called  |-> TRUE, cur |-> Cur, err |-> r.err,
     n       |-> r.rs.pos - pos,
     lim     |-> lims[Cur],
     avail   |-> Avail(Rs, Cur),
     idFirst |-> IF Avail(Rs, Cur) >= 1 THEN src.data[pos + 1] ELSE -1,
     szFirst |-> IF idv.err = "nil" /\ Avail(idv.rs, Cur) >= 1
                 THEN src.data[idv.rs.pos + 1] ELSE -1]

\* readStruct: ne, err = e.Next()
CallNext ==
    /\ status = "running"
    /\ Top.pc = "loop"
    /\ \E r \in {Next(Rs, Cur)} :
        /\ stack' = [stack EXCEPT ![Cur] =
                        [@ EXCEPT !.pc = "next",
                                  !.err = Err(r.err),
                                  !.ne = [isNil |-> r.isNil, Id |-> r.Id,
                                          N |-> r.N,
                                          avail |-> Avail(r.rs, Cur)]]]
        /\ lims' = IF r.isNil THEN r.rs.lims
                   ELSE WithChild(r.rs, Cur, r.N).lims
        /\ pos' = r.rs.pos
        /\ nx' = NxInfo(r, readVint(Rs, Cur))
    /\ handled' = NoHandled
    /\ UNCHANGED <<src, typ, dest, status, result, stopAt, defPass, caller,
                   vout>>

\* Next has returned
Got == status = "running" /\ Top.pc = "next"

\* i := lookup(ne.Id, t)
Idx == lookup(Top.ne.Id, Top.ty)

\* the field readField is handed
IdxField == TField(Top.ty, Idx)

\* the child this iteration dispatches
ChildInfo(kind) ==
    [kind |-> kind, id |-> Top.ne.Id, ty |-> Top.ty,
     declared |-> Top.ne.N, avail |-> Top.ne.avail]

\* a child that has been handled with error err, in reader state rs, the
\* child being cursor c + 1 of parent c
Handled(child, err, rs, c) ==
    [kind |-> child.kind, id |-> child.id, ty |-> child.ty,
     declared |-> child.declared, avail |-> child.avail, err |-> err.kind,
     left |-> rs.lims[c + 1], pavail |-> Avail(rs, c)]

\* readStruct hands the child to readField: i >= 0
ToField(kind) ==
    /\ Got
    /\ Top.err.kind = "nil"
    /\ Idx >= 0
    /\ IdxField.kind = kind

\* the end of a loop iteration that handled its child itself
EndIteration(err, rs, child) ==
    /\ stack' = [stack EXCEPT ![Cur] =
                    [@ EXCEPT !.err = err,
                              !.pc = IF LoopGoesOn(err) THEN "loop"
                                     ELSE "exit"]]
    /\ lims' = rs.lims
    /\ pos' = rs.pos
    /\ handled' = Handled(child, err, rs, Cur)

\* the end of a leaf case of readField: r is what the read returned
EndRead(r, kind) == EndIteration(Err(r.err), r.rs, ChildInfo(kind))

\* readStruct: Next answered io.EOF, err = nil and the loop ends
NextEOF ==
    /\ Got
    /\ Top.err.kind = "EOF"
    /\ stack' = [stack EXCEPT ![Cur] = [@ EXCEPT !.err = Err("nil"),
                                                 !.pc = "exit"]]
    /\ UNCHANGED <<src, pos, lims, typ, dest, status, result, handled, nx,
                   stopAt, defPass, caller, vout>>

\* readStruct: Next answered another error and a nil element; ne.Id then
\* dereferences nil
NextError ==
    /\ Got
    /\ Top.err.kind \notin {"nil", "EOF"}
    /\ Top.ne.isNil
    /\ status' = "panic"
    /\ UNCHANGED <<src, pos, lims, typ, dest, stack, result, handled, nx,
                   stopAt, defPass, caller, vout>>

\* readStruct: no field has the child's Id (i == -1), ne.skip()
Skip ==
    /\ Got
    /\ Top.err.kind = "nil"
    /\ Idx = -1
    /\ EndRead(skip(Rd, Cur + 1), "skip")
    /\ UNCHANGED <<src, typ, dest, status, result, nx, stopAt, defPass,
                   caller, vout>>

\* readField: reflect.Uint, SetUint of readUint64, whatever its error
ReadUint ==
    /\ ToField("Uint")
    /\ \E r \in {readUint64(Rd, Cur + 1)} :
        /\ dest' = SetAt(dest, Top.path \o <<Idx + 1>>, r.val)
        /\ EndRead(r, "Uint")
    /\ UNCHANGED <<src, typ, status, result, nx, stopAt, defPass, caller,
                   vout>>

\* readField: reflect.String, SetString of readString, whatever its error
ReadString ==
    /\ ToField("String")
    /\ \E r \in {readString(Rd, Cur + 1)} :
        /\ dest' = SetAt(dest, Top.path \o <<Idx + 1>>, r.val)
        /\ EndRead(r, "String")
    /\ UNCHANGED <<src, typ, status, result, nx, stopAt, defPass, caller,
                   vout>>

\* readSlice: a slice of uint8 is set to ReadData if that did not fail
ReadBytes ==
    /\ ToField("Slice")
    /\ IdxField.elem = "uint8"
    /\ \E r \in {ReadData(Rd, Cur + 1)} :
        /\ dest' = IF r.err = "nil"
                   THEN SetAt(dest, Top.path \o <<Idx + 1>>, r.d)
                   ELSE dest
        /\ EndRead(r, "Bytes")
    /\ UNCHANGED <<src, typ, status, result, nx, stopAt, defPass, caller,
                   vout>>

\* a readStruct call on the child begins
Enter(frame) ==
    /\ stack' = Append(stack, frame)
    /\ UNCHANGED <<pos, lims, handled>>

\* readField: reflect.Struct, readStruct of the field
EnterStruct ==
    /\ ToField("Struct")
    /\ Enter(Frame(Top.ne.Id, Top.path \o <<Idx + 1>>, IdxField.elem,
                   "struct", 0, 0, ChildInfo("Struct")))
    /\ UNCHANGED <<src, typ, dest, status, result, nx, stopAt, defPass,
                   caller, vout>>

\* readSlice: a slice of structs gets a zero element appended, readStruct
\* of that element
EnterSlice ==
    /\ ToField("Slice")
    /\ IdxField.elem # "uint8"
    /\ \E fp \in {Top.path \o <<Idx + 1>>} :
        /\ dest' = SetAt(dest, fp,
                         Append(GetAt(dest, fp), ZeroStruct(IdxField.elem)))
        /\ Enter(Frame(Top.ne.Id, fp \o <<Len(GetAt(dest, fp)) + 1>>,
                       IdxField.elem, "slice", 0, 0, ChildInfo("Slice")))
    /\ UNCHANGED <<src, typ, status, result, nx, stopAt, defPass, caller,
                   vout>>

\* readField: reflect.Array with a first slot, readStruct of slot 0
EnterArray ==
    /\ ToField("Array")
    /\ ArrayGoesOn(0, IdxField.len, Err("nil"))
    /\ Enter(Frame(Top.ne.Id, Top.path \o <<Idx + 1, 1>>, IdxField.elem,
                   "array", 0, IdxField.len, ChildInfo("Array")))
    /\ UNCHANGED <<src, typ, dest, status, result, nx, stopAt, defPass,
                   caller, vout>>

\* readField: reflect.Array of length 0, the loop body never runs and err
\* stays nil
EmptyArray ==
    /\ ToField("Array")
    /\ ~ArrayGoesOn(0, IdxField.len, Err("nil"))
    /\ EndIteration(Err("nil"), Rd, ChildInfo("Array"))
    /\ UNCHANGED <<src, typ, dest, status, result, nx, stopAt, defPass,
                   caller, vout>>

\* readStruct: the child's field is stop-tagged (i < -1),
\* err = ReachedPayloadError{ne, e}
Stop ==
    /\ Got
    /\ Top.err.kind = "nil"
    /\ Idx < -1
    /\ \E err \in {ReachedPayloadError([cur |-> Cur + 1, Id |-> Top.ne.Id],
                                       [cur |-> Cur, Id |-> Top.id])} :
        /\ EndIteration(err, Rd, ChildInfo("stop"))
        /\ stopAt' = [depth |-> Cur, ty |-> Top.ty, hdrEnd |-> pos,
                      size |-> Top.ne.N,
                      avail |-> Top.ne.avail, id |-> Top.ne.Id, err |-> err]
    /\ UNCHANGED <<src, typ, dest, status, result, nx, defPass, caller, vout>>

\* the end of a readStruct call: setDefaults(v), whatever err is
RunDefaults ==
    \E after \in {setDefaults(GetAt(dest, Top.path), Top.ty)} :
        /\ dest' = SetAt(dest, Top.path, after)
        /\ defPass' = [ran |-> TRUE, ty |-> Top.ty,
                       before |-> GetAt(dest, Top.path), after |-> after]

Exiting == status = "running" /\ Top.pc = "exit"

\* the readStruct call of Unmarshal returns
ReturnTop ==
    /\ Exiting
    /\ Top.via = "top"
    /\ RunDefaults
    /\ status' = "returned"
    /\ result' = Top.err
    /\ stack' = <<>>
    /\ UNCHANGED <<src, pos, lims, typ, handled, nx, stopAt, caller, vout>>

\* a readStruct call made by readField or readSlice returns, and with it
\* readField: its error is the err of the caller's loop iteration
ReturnToLoop ==
    /\ Exiting
    /\ \/ Top.via \in {"struct", "slice"}
       \/ Top.via = "array" /\ ~ArrayGoesOn(Top.slot + 1, Top.alen, Top.err)
    /\ RunDefaults
    /\ stack' = [SubSeq(stack, 1, Cur - 1) EXCEPT ![Cur - 1] =
                    [@ EXCEPT !.err = Top.err,
                              !.pc = IF LoopGoesOn(Top.err) THEN "loop"
                                     ELSE "exit"]]
    /\ handled' = Handled(Top.child, Top.err, Rd, Cur - 1)
    /\ UNCHANGED <<src, pos, lims, typ, status, result, nx, stopAt, caller,
                   vout>>

\* readField's array loop: readStruct of the next slot, on the same cursor
NextSlot ==
    /\ Exiting
    /\ Top.via = "array"
    /\ ArrayGoesOn(Top.slot + 1, Top.alen, Top.err)
    /\ RunDefaults
    /\ stack' = [stack EXCEPT ![Cur] =
                    Frame(Top.id,
                          SubSeq(Top.path, 1, Len(Top.path) - 1)
                              \o <<Top.slot + 2>>,
                          Top.ty, "array", Top.slot + 1, Top.alen, Top.child)]
    /\ UNCHANGED <<src, pos, lims, typ, status, result, handled, nx, stopAt,
                   caller, vout>>

-----------------------------------------------------------------------------
(* The caller of Unmarshal, handed a ReachedPayloadError: it may read the   *)
(* payload of First, and it goes on with Rest.                              *)

GotPayload == status = "returned" /\ result.kind = "Reached"

\* r.First.ReadData()
CallerReadFirst ==
    /\ GotPayload
    /\ ~caller.readFirst /\ ~caller.restNext
    /\ \E r \in {ReadData(Rd, result.First.cur)} :
        /\ lims' = r.rs.lims
        /\ pos' = r.rs.pos
    /\ caller' = [caller EXCEPT !.readFirst = TRUE]
    /\ UNCHANGED <<src, typ, dest, stack, status, result, handled, nx,
                   stopAt, defPass, vout>>

\* r.Rest.Next()
CallerRestNext ==
    /\ GotPayload
    /\ ~caller.restNext
    /\ \E r \in {Next(Rd, result.Rest.cur)} :
        /\ lims' = r.rs.lims
        /\ pos' = r.rs.pos
        /\ caller' = [caller EXCEPT
                        !.restNext = TRUE,
                        !.from = pos,
                        !.firstLeft = lims[result.First.cur],
                        !.ne = [isNil |-> r.isNil, err |-> r.err,
                                Id |-> r.Id, N |-> r.N]]
    /\ UNCHANGED <<src, typ, dest, stack, status, result, handled, nx,
                   stopAt, defPass, vout>>

DecodeNext ==
    \/ Unmarshal
    \/ CallNext
    \/ NextEOF
    \/ NextError
    \/ Skip
    \/ ReadUint
    \/ ReadString
    \/ ReadBytes
    \/ EnterStruct
    \/ EnterSlice
    \/ EnterArray
    \/ EmptyArray
    \/ Stop
    \/ ReturnTop
    \/ ReturnToLoop
    \/ NextSlot
    \/ CallerReadFirst
    \/ CallerRestNext

Spec == Init /\ [][DecodeNext]_vars

-----------------------------------------------------------------------------
(* The codec on its own: readVint and readSize applied to a byte stream.    *)

\* first bytes with 0 to 7 leading zero bits, and 0x00
FirstBytes ==
    {0} \cup {Pow2(7 - k) : k \in 0..7} \cup {Pow2(8 - k) - 1 : k \in 0..7}
        \cup {129, 65, 42}

\* the bytes that follow: 0x00, 0x01, 0xff
FollowBytes == {0, 1, 255}

VintInputs ==
    {<<b>> \o f : b \in FirstBytes,
                  f \in UNION {[1..n -> FollowBytes] : n \in 0..MaxFollow}}

VInit ==
    /\ src \in [data : VintInputs, endErr : {"EOF"}]
    /\ typ = "Scalars"
    /\ pos = RootElement.pos
    /\ lims = RootElement.lims
    /\ dest = <<>>
    /\ stack = <<>>
    /\ status = "codec"
    /\ result = Err("nil")
    /\ handled = NoHandled
    /\ nx = NoNx
    /\ stopAt = NoStop
    /\ defPass = NoDefPass
    /\ caller = NoCaller
    /\ vout = NoOut

\* val, err, rem := readVint(r)
CallReadVint ==
    /\ status = "codec"
    /\ vout.fn = "none"
    /\ \E r \in {readVint(Rd, 1)} :
        /\ vout' = [fn |-> "readVint", val |-> r.val, err |-> r.err,
                    rem |-> r.rem, n |-> r.rs.pos - pos]
        /\ lims' = r.rs.lims
        /\ pos' = r.rs.pos
    /\ UNCHANGED <<src, typ, dest, stack, status, result, handled, nx,
                   stopAt, defPass, caller>>

\* sz, err := readSize(r)
CallReadSize ==
    /\ status = "codec"
    /\ vout.fn = "none"
    /\ \E r \in {readSize(Rd, 1)} :
        /\ vout' = [fn |-> "readSize", val |-> r.sz, err |-> r.err,
                    rem |-> 0, n |-> r.rs.pos - pos]
        /\ lims' = r.rs.lims
        /\ pos' = r.rs.pos
    /\ UNCHANGED <<src, typ, dest, stack, status, result, handled, nx,
                   stopAt, defPass, caller>>

VNext ==
    \/ CallReadVint
    \/ CallReadSize

VintSpec == VInit /\ [][VNext]_vars

-----------------------------------------------------------------------------
(* Properties of the decoder.                                              *)

\* the number of zero bits before the first set bit of a byte 1..255
LeadingZeros(b) == CHOOSE k \in 0..7 : Pow2(7 - k) <= b /\ b < Pow2(8 - k)

\* the big-endian number of the first n bytes of d, n <= 8, as a uint64
Concat(d, n) == [i \in 1..8 |-> IF i <= 8 - n THEN 0 ELSE d[i - (8 - n)]]

\* Concat(d, n) with bit 7 * n cleared: the marker of an n-byte vint
Unmarked(d, n) ==
    [Concat(d, n) EXCEPT ![8 - (n - 1)] = d[1] - Pow2(8 - n)]

\* the codec was handed a whole vint: a first byte with k leading zeros
\* and at least k more bytes
WholeVint ==
    /\ src.data # <<>>
    /\ src.data[1] > 0
    /\ Len(src.data) >= LeadingZeros(src.data[1]) + 1

\* C7: of a whole vint with k leading zeros in its first byte, readVint
\* consumes exactly k + 1 bytes and returns their big-endian concatenation,
\* marker kept; readSize consumes the same bytes and returns that value
\* with the one bit 7 * (k + 1) cleared.
C7_VintAndSize ==
    vout.fn # "none" /\ WholeVint =>
        /\ vout.err = "nil"
        /\ vout.n = LeadingZeros(src.data[1]) + 1
        /\ vout.fn = "readVint" =>
               /\ vout.val = Concat(src.data, vout.n)
               /\ vout.rem = vout.n - 1
        /\ vout.fn = "readSize" => vout.val = Unmarked(src.data, vout.n)

\* C7: readSize of the bytes 0x40 0x01 returned size 1
C7_Witness ==
    /\ vout.fn = "readSize"
    /\ src.data = <<64, 1>>
    /\ vout.val = U64OfNat(1)
    /\ vout.n = 2

\* C8: a vint whose first byte is 0x00 makes readVint and readSize fail.
C8_ZeroByteFails ==
    vout.fn # "none" /\ src.data # <<>> /\ src.data[1] = 0 =>
        vout.err # "nil"

\* C3: a Next that fails with an error other than io.EOF never crashes
\* readStruct.
C3_NextErrorNoCrash ==
    nx.called /\ nx.err \notin {"nil", "EOF"} => status # "panic"

\* C4: Next answers io.EOF only if it read no byte of the child's header
\* (headers of well-formed vints: no first byte 0x00).
C4_EOFOnlyAtBoundary ==
    nx.called /\ nx.err = "EOF" /\ nx.idFirst # 0 /\ nx.szFirst # 0 =>
        nx.n = 0

\* C5: a child whose declared size exceeds the bytes available to it is
\* never handled without an error, be it a scalar, a string, a byte blob, a
\* nested record, a list element or a skipped child.
C5_ShortChildFails ==
    /\ handled.kind \in {"Uint", "String", "Bytes", "Struct", "Slice", "skip"}
    /\ handled.declared > handled.avail
    => handled.err # "nil"

\* the identifier is the ebml annotation of a field of record type t
Annotated(id, t) ==
    \E i \in 0..(NumField(t) - 1) :
        /\ TField(t, i).ebml # <<>>
        /\ U64OfNat(ParseUint(TField(t, i).ebml, 16)) = id

\* C2: a child whose identifier is not the ebml annotation of any field of
\* the record is skipped.
C2_UnknownIsSkipped ==
    handled.kind # "none" /\ ~Annotated(handled.id, handled.ty) =>
        handled.kind = "skip"

\* C10: when readStruct is about to call Next after a child was handled
\* without error, that child is used up or the parent has no bytes left.
C10_ChildUsedUp ==
    /\ status = "running"
    /\ Top.pc = "loop"
    /\ handled.kind # "none"
    /\ handled.err = "nil"
    => handled.left = 0 \/ handled.pavail = 0

\* the literal default of field i (from 1) of t, and the field its link names
HasLiteral(t, i) == TField(t, i - 1).ebmldef # <<>>
HasLink(t, i) == TField(t, i - 1).ebmldeflink # ""
LinkOf(t, i) ==
    CHOOSE j \in 1..NumField(t) :
        TField(t, j - 1).name = TField(t, i - 1).ebmldeflink
WasZero(i) ==
    defPass.before[i] = ZeroField(TField(defPass.ty, i - 1))
ScalarFields ==
    {i \in 1..NumField(defPass.ty) : IsScalar(TField(defPass.ty, i - 1))}

\* the value field j had when the pass reached field i: the fields are
\* resolved in order, each at its own turn only
AtTurn(i, j) == IF j < i THEN defPass.after[j] ELSE defPass.before[j]

\* C6, as stated: after the default pass a scalar field that was zero holds
\* its literal default if it declares one, also when it declares a link;
\* otherwise the value of the linked sibling at that moment; a non-zero
\* field is unchanged.
C6_LiteralFirst ==
    defPass.ran =>
        \A i \in ScalarFields :
            /\ ~WasZero(i) => defPass.after[i] = defPass.before[i]
            /\ WasZero(i) /\ HasLiteral(defPass.ty, i) =>
                   defPass.after[i] = LiteralDefault(TField(defPass.ty, i - 1))
            /\ WasZero(i) /\ ~HasLiteral(defPass.ty, i)
                   /\ HasLink(defPass.ty, i) =>
                   defPass.after[i] = AtTurn(i, LinkOf(defPass.ty, i))

\* C6, amended: after the default pass a scalar field that was zero holds
\* the value its linked sibling had at that moment if it declares a link,
\* also when it declares a literal; otherwise its literal default if it
\* declares one; otherwise zero.  A non-zero field and a field that is no
\* scalar are unchanged.
C6_LinkFirst ==
    defPass.ran =>
        \A i \in 1..NumField(defPass.ty) :
            IF i \notin ScalarFields \/ ~WasZero(i)
            THEN defPass.after[i] = defPass.before[i]
            ELSE IF HasLink(defPass.ty, i)
            THEN defPass.after[i] = AtTurn(i, LinkOf(defPass.ty, i))
            ELSE IF HasLiteral(defPass.ty, i)
            THEN defPass.after[i] = LiteralDefault(TField(defPass.ty, i - 1))
            ELSE defPass.after[i] = defPass.before[i]

\* C6: Scalars with A and B zero: A got its literal 7, and B, which
\* declares the literal 5 and the link A, got 7
C6_Witness ==
    /\ defPass.ran
    /\ defPass.ty = "Scalars"
    /\ defPass.before[1] = U64Zero
    /\ defPass.before[2] = U64Zero
    /\ defPass.after[1] = U64OfNat(7)
    /\ defPass.after[2] = U64OfNat(7)

\* C9, as stated: a ReachedPayloadError raised at depth 2 or more ends only
\* the readStruct call that raised it: no enclosing call, and so not
\* Unmarshal, ends with it.
C9_OneLevel ==
    stopAt.depth >= 2 =>
        /\ status = "running" /\ Cur < stopAt.depth =>
               Top.err.kind # "Reached"
        /\ status = "returned" => result.kind # "Reached"

\* C9, amended: a ReachedPayloadError, at whatever depth it is raised, ends
\* the readStruct call that raised it and every enclosing one, none of
\* which calls Next again, and it is the error Unmarshal returns.
C9_AllLevels ==
    stopAt.depth >= 1 =>
        /\ status \in {"running", "returned"}
        /\ status = "running" =>
               /\ Cur <= stopAt.depth
               /\ Top.pc = "exit"
               /\ Top.err = stopAt.err
        /\ status = "returned" => result = stopAt.err

\* C9: Unmarshal returned the ReachedPayloadError raised two levels down
C9_Witness ==
    /\ status = "returned"
    /\ stopAt.depth >= 2
    /\ result.kind = "Reached"
    /\ result.First.cur = stopAt.depth + 1

\* C1, as stated: the Next call the caller makes on Rest starts at the
\* sibling following the stop child, that is, after the child's payload.
C1_RestAtSibling ==
    caller.restNext /\ stopAt.size <= stopAt.avail =>
        caller.from = stopAt.hdrEnd + stopAt.size

\* C1, amended: a child matching a stop-tagged field ends the loop at once
\* with a ReachedPayloadError whose First is that child, payload unread,
\* and whose Rest is the cursor being decoded, left right after the
\* child's header: the Next call the caller makes on Rest starts after as
\* much of the child's payload as has been read from First, so at the
\* following sibling only once First is used up.
C1_RestAfterHeader ==
    stopAt.depth >= 1 =>
        /\ stopAt.err.kind = "Reached"
        /\ stopAt.err.First = [cur |-> stopAt.depth + 1, Id |-> stopAt.id]
        /\ stopAt.err.Rest.cur = stopAt.depth
        /\ lookup(stopAt.id, stopAt.ty) < -1
        /\ status = "running" /\ Cur = stopAt.depth =>
               /\ Top.pc = "exit"
               /\ pos = stopAt.hdrEnd
               /\ lims[Cur + 1] = stopAt.size
        /\ status = "returned" /\ ~caller.readFirst /\ ~caller.restNext =>
               /\ pos = stopAt.hdrEnd
               /\ lims[result.First.cur] = stopAt.size
        /\ caller.restNext =>
               caller.from = stopAt.hdrEnd + stopAt.size - caller.firstLeft

\* C1: the caller read the payload of First, one byte or more, and the
\* Next call on Rest then yielded the following sibling
C1_Witness ==
    /\ caller.readFirst
    /\ caller.restNext
    /\ stopAt.size >= 1
    /\ caller.firstLeft = 0
    /\ ~caller.ne.isNil
    /\ caller.from = stopAt.hdrEnd + stopAt.size

=============================================================================
